---- MODULE Spec2Model ----
(***************************************************************************)
(* Model of src/uptime.py: the duration parser (parse_duration), the       *)
(* interval merger (merge_intervals) and the uptime calculator             *)
(* (compute_uptime).                                                       *)
(*                                                                         *)
(* Time is counted in whole minutes: every timedelta the program builds is *)
(* timedelta(hours=h, minutes=m) or timedelta(days=d), and the pubDates    *)
(* of the model fall on whole minutes.  A timestamp is the instant it      *)
(* denotes (aware datetimes compare and subtract by instant).              *)
(*                                                                         *)
(* A description is a sequence of tokens.  The token "Duration:" is the    *)
(* label, "hour" and "minute" are the unit words (with any suffix, in any  *)
(* letter case), "0" "1" "2" "4" are decimal digits, " " is a blank,       *)
(* "\n" is a line break and "x" is any other text.                         *)
(***************************************************************************)
EXTENDS Integers, Sequences, FiniteSets, TLC

VARIABLES
    description,          \* parse_duration: the argument
    dur_result,           \* parse_duration: the value returned
    pc_parse,             \* parse_duration: "call" or "done"
    mi_intervals,         \* merge_intervals: the argument
    mi_merged,            \* merge_intervals: the value returned
    pc_merge,             \* merge_intervals: "call" or "done"
    days,                 \* compute_uptime: the argument
    now,                  \* compute_uptime: now
    window_start,         \* compute_uptime: window_start
    feed,                 \* compute_uptime: the records iter_items has yielded
    intervals,            \* compute_uptime: intervals
    incident_total,       \* compute_uptime: incident_total
    incident_count,       \* compute_uptime: incident_count
    component_intervals,  \* compute_uptime: component_intervals
    result,               \* compute_uptime: the tuple returned
    pc                    \* compute_uptime: "start", "loop", "done"

parse_vars == <<description, dur_result, pc_parse>>
merge_vars == <<mi_intervals, mi_merged, pc_merge>>
uptime_vars == <<days, now, window_start, feed, intervals, incident_total,
                 incident_count, component_intervals, result, pc>>
vars == <<parse_vars, merge_vars, uptime_vars>>

(***************************************************************************)
(* Bounds of the model and constants of the program.                       *)
(***************************************************************************)
MaxDescLen == 4        \* longest description drawn for parse_duration
MaxIntervals == 3      \* longest interval list drawn for merge_intervals
MaxT == 3              \* largest timestamp drawn for merge_intervals
MaxItems == 2          \* longest feed drawn for compute_uptime
MaxDays == 1           \* largest --days drawn for compute_uptime
Now == 5000            \* the frozen datetime.now(), in minutes
MinutesPerHour == 60   \* timedelta(hours=1)
MinutesPerDay == 1440  \* timedelta(days=1)

Min(a, b) == IF a <= b THEN a ELSE b
Max(a, b) == IF a >= b THEN a ELSE b

RECURSIVE SeqsUpTo(_, _)
SeqsUpTo(S, n) ==
    IF n = 0 THEN {<<>>}
    ELSE LET shorter == SeqsUpTo(S, n - 1)
         IN  shorter \cup {Append(s, x) : s \in {t \in shorter : Len(t) = n - 1}, x \in S}

(***************************************************************************)
(* parse_duration                                                          *)
(***************************************************************************)
Label == "Duration:"
Tokens == {Label, " ", "\n", "0", "1", "2", "hour", "minute", "x"}

IsSpace(c) == c \in {" ", "\n"}                \* \s
IsEol(c) == c = "\n"                           \* \n or \r
IsDigit(c) == c \in {"0", "1", "2", "4"}       \* \d

DigitValue(c) == CASE c = "0" -> 0 [] c = "1" -> 1 [] c = "2" -> 2 [] c = "4" -> 4

\* int(group): the decimal value of a run of digits
RECURSIVE int(_)
int(digits) ==
    IF digits = <<>> THEN 0
    ELSE 10 * int(SubSeq(digits, 1, Len(digits) - 1)) + DigitValue(digits[Len(digits)])

None == [isNone |-> TRUE, minutes |-> 0]
timedelta(hours, minutes) ==
    [isNone |-> FALSE, minutes |-> hours * MinutesPerHour + minutes]

\* the first position from i on that holds no blank or line break (\s*, greedy)
RECURSIVE skip_space(_, _)
skip_space(t, i) ==
    IF i <= Len(t) /\ IsSpace(t[i]) THEN skip_space(t, i + 1) ELSE i

\* the first position from i on that holds no digit (\d+, greedy)
RECURSIVE skip_digits(_, _)
skip_digits(t, i) ==
    IF i <= Len(t) /\ IsDigit(t[i]) THEN skip_digits(t, i + 1) ELSE i

\* the first position from i on that holds a line break ([^\n\r]+, greedy)
RECURSIVE skip_line(_, _)
skip_line(t, i) ==
    IF i <= Len(t) /\ ~IsEol(t[i]) THEN skip_line(t, i + 1) ELSE i

\* \s* gives characters back, last first, until a blank that is no line
\* break is given back: its position, or 0
RECURSIVE give_back(_, _, _)
give_back(t, lo, q) ==
    IF q < lo THEN 0 ELSE IF ~IsEol(t[q]) THEN q ELSE give_back(t, lo, q - 1)

\* Duration:\s*([^\n\r]+) tried at position i: where group(1) starts, or 0.
\* \s* takes every blank and line break; behind them is a character that
\* is no line break, or the end of the text, where \s* gives back.
label_group_at(d, i) ==
    IF d[i] # Label THEN 0
    ELSE LET m == skip_space(d, i + 1)
         IN  IF m <= Len(d) THEN m ELSE give_back(d, i + 1, Len(d))

\* re.search: the leftmost position where the pattern matches; 0 without one
RECURSIVE label_search(_, _)
label_search(d, i) ==
    IF i > Len(d) THEN 0
    ELSE IF label_group_at(d, i) # 0 THEN i
    ELSE label_search(d, i + 1)

\* m.group(1), line 38
dur_text(d) ==
    LET g == label_group_at(d, label_search(d, 1))
    IN  SubSeq(d, g, skip_line(d, g) - 1)

\* (\d+)\s*unit tried at position i: \d+ takes the run of digits, \s* the
\* blanks behind it, and the unit word must follow (giving back a digit or a
\* blank leaves a digit or a blank in front of the unit word, never a match)
unit_at(t, unit, i) ==
    /\ IsDigit(t[i])
    /\ LET m == skip_space(t, skip_digits(t, i))
       IN  m <= Len(t) /\ t[m] = unit

\* int(re.search(...).group(1)) when the pattern matches, else the default 0
RECURSIVE unit_search(_, _, _)
unit_search(t, unit, i) ==
    IF i > Len(t) THEN 0
    ELSE IF unit_at(t, unit, i) THEN int(SubSeq(t, i, skip_digits(t, i) - 1))
    ELSE unit_search(t, unit, i + 1)

\* the tail of parse_duration, lines 38-53, on the text taken from the label
duration_of(text) ==
    LET hours == unit_search(text, "hour", 1)
        minutes == unit_search(text, "minute", 1)
    IN  IF hours = 0 /\ minutes = 0 THEN None ELSE timedelta(hours, minutes)

\* a plausible slip: the zero duration is returned instead of the sentinel
parse_duration_zero(d) ==
    IF d = <<>> THEN None
    ELSE IF label_search(d, 1) = 0 THEN None
    ELSE LET hours == unit_search(dur_text(d), "hour", 1)
             minutes == unit_search(dur_text(d), "minute", 1)
         IN  timedelta(hours, minutes)

parse_duration(d) ==
    IF d = <<>> THEN None
    ELSE IF label_search(d, 1) = 0 THEN None
    ELSE duration_of(dur_text(d))

ParseInit ==
    /\ description \in SeqsUpTo(Tokens, MaxDescLen)
    /\ dur_result = None
    /\ pc_parse = "call"

ParseIdle ==
    /\ description = <<>>
    /\ dur_result = None
    /\ pc_parse = "idle"

ParseCall ==
    /\ pc_parse = "call"
    /\ dur_result' = parse_duration(description)
    /\ pc_parse' = "done"
    /\ UNCHANGED <<description, merge_vars, uptime_vars>>

(***************************************************************************)
(* merge_intervals                                                         *)
(***************************************************************************)
\* an interval is the tuple (start, end)
\* insertion of x behind every element whose start is <= x's start
RECURSIVE insert_by_start(_, _)
insert_by_start(s, x) ==
    IF s = <<>> THEN <<x>>
    ELSE IF s[Len(s)][1] <= x[1] THEN Append(s, x)
    ELSE Append(insert_by_start(SubSeq(s, 1, Len(s) - 1), x), s[Len(s)])

\* a plausible slip: the list is walked in the order given
unsorted(s) == s

\* sorted(intervals, key=lambda x: x[0]): a stable sort on the start alone
RECURSIVE sorted_by_start(_)
sorted_by_start(s) ==
    IF s = <<>> THEN <<>>
    ELSE insert_by_start(sorted_by_start(SubSeq(s, 1, Len(s) - 1)), s[Len(s)])

\* a plausible slip: start < last_end, so touching intervals stay apart
merge_step_strict(merged, iv) ==
    LET last == merged[Len(merged)]
    IN  IF iv[1] < last[2]
        THEN [merged EXCEPT ![Len(merged)] = <<last[1], Max(last[2], iv[2])>>]
        ELSE Append(merged, iv)

\* one turn of the loop of lines 119-124
merge_step(merged, iv) ==
    LET last == merged[Len(merged)]
    IN  IF iv[1] <= last[2]
        THEN [merged EXCEPT ![Len(merged)] = <<last[1], Max(last[2], iv[2])>>]
        ELSE Append(merged, iv)

RECURSIVE merge_loop(_, _, _)
merge_loop(merged, s, k) ==
    IF k > Len(s) THEN merged ELSE merge_loop(merge_step(merged, s[k]), s, k + 1)

\* a plausible slip: the sorted intervals are returned without merging
merge_intervals_nomerge(ivs) == sorted_by_start(ivs)

merge_intervals(ivs) ==
    IF ivs = <<>> THEN <<>>
    ELSE LET s == sorted_by_start(ivs)
         IN  merge_loop(<<s[1]>>, s, 2)

InputIntervals == {iv \in (0..MaxT) \X (0..MaxT) : iv[1] <= iv[2]}

MergeInit ==
    /\ mi_intervals \in SeqsUpTo(InputIntervals, MaxIntervals)
    /\ mi_merged = <<>>
    /\ pc_merge = "call"

MergeIdle ==
    /\ mi_intervals = <<>>
    /\ mi_merged = <<>>
    /\ pc_merge = "idle"

MergeCall ==
    /\ pc_merge = "call"
    /\ mi_merged' = merge_intervals(mi_intervals)
    /\ pc_merge' = "done"
    /\ UNCHANGED <<mi_intervals, parse_vars, uptime_vars>>

(***************************************************************************)
(* compute_uptime                                                          *)
(***************************************************************************)
\* a record of iter_items is [pub_date, description, type, components]

\* a plausible slip: the end of the window is excluded
counts_as_incident_open(item, start, ws, nw) ==
    item.type = "incident" /\ ws <= start /\ start < nw

\* line 150
counts_as_incident(item, start, ws, nw) ==
    item.type = "incident" /\ ws <= start /\ start <= nw

\* a plausible slip: the end is not clipped to now
clipped_end_unclipped(end, nw) == end

\* line 159
clipped_end_of(end, nw) == Min(end, nw)

\* a plausible slip: an empty clipped interval is kept
non_degenerate_or_empty(cs, ce) == cs <= ce

\* line 160
non_degenerate(cs, ce) == cs < ce

\* lines 164-167: setdefault(comp, []).append(iv) for each listed component
RECURSIVE add_to_components(_, _, _, _)
add_to_components(ci, comps, k, iv) ==
    IF k > Len(comps) THEN ci
    ELSE LET comp == comps[k]
             old == IF comp \in DOMAIN ci THEN ci[comp] ELSE <<>>
             nxt == [c \in (DOMAIN ci) \cup {comp} |->
                        IF c = comp THEN Append(old, iv) ELSE ci[c]]
         IN  add_to_components(nxt, comps, k + 1, iv)

\* the body of the loop of lines 139-167 on the accumulators
loop_body(acc, item, ws, nw) ==
    LET dur == parse_duration(item.description)
    IN  IF dur.isNone THEN acc
        ELSE
          LET start == item.pub_date
              end == start + dur.minutes
              acc1 == IF counts_as_incident(item, start, ws, nw)
                      THEN [acc EXCEPT !.incident_total = @ + dur.minutes,
                                       !.incident_count = @ + 1]
                      ELSE acc
          IN  IF end <= ws \/ start >= nw THEN acc1
              ELSE
                LET clipped_start == Max(start, ws)
                    clipped_end == clipped_end_of(end, nw)
                    iv == <<clipped_start, clipped_end>>
                IN  IF non_degenerate(clipped_start, clipped_end)
                    THEN [acc1 EXCEPT
                            !.intervals = Append(@, iv),
                            !.component_intervals =
                                add_to_components(@, item.components, 1, iv)]
                    ELSE acc1

\* sum((end - start for start, end in merged), timedelta())
RECURSIVE sum_lengths(_)
sum_lengths(merged) ==
    IF merged = <<>> THEN 0
    ELSE (merged[Len(merged)][2] - merged[Len(merged)][1])
         + sum_lengths(SubSeq(merged, 1, Len(merged) - 1))

\* a percentage is the exact fraction num / den
\* a plausible slip: the degenerate window is not special-cased
uptime_percentage_unguarded(downtime, window) ==
    [num |-> Max(0, window - downtime) * 100, den |-> window]

\* lines 173-177 and 191-197: max(0.0, 1.0 - downtime / window) * 100.0
uptime_percentage(downtime, window) ==
    IF window <= 0 THEN [num |-> 100, den |-> 1]
    ELSE [num |-> Max(0, window - downtime) * 100, den |-> window]

\* lines 179-181: the exact quotient incident_total / incident_count
average(total, count) ==
    IF count > 0
    THEN [isNone |-> FALSE, quot |-> total \div count, rem |-> total % count,
          count |-> count]
    ELSE [isNone |-> TRUE, quot |-> 0, rem |-> 0, count |-> 0]

\* lines 185-203
component_stat(comp_intervals, window) ==
    LET merged_comp == merge_intervals(comp_intervals)
        comp_downtime == sum_lengths(merged_comp)
    IN  [uptime_pct |-> uptime_percentage(comp_downtime, window),
         downtime |-> comp_downtime,
         intervals |-> merged_comp]

\* lines 169-212
aggregate(acc, ws, nw) ==
    LET merged == merge_intervals(acc.intervals)
        total_downtime == sum_lengths(merged)
        window == nw - ws
    IN  [uptime_pct |-> uptime_percentage(total_downtime, window),
         total_downtime |-> total_downtime,
         merged |-> merged,
         incident_count |-> acc.incident_count,
         avg_incident_resolution |-> average(acc.incident_total, acc.incident_count),
         component_stats |->
            [c \in DOMAIN acc.component_intervals |->
                component_stat(acc.component_intervals[c], window)]]

EmptyAcc ==
    [intervals |-> <<>>, incident_total |-> 0, incident_count |-> 0,
     component_intervals |-> <<>>]

NoResult ==
    [uptime_pct |-> [num |-> 0, den |-> 0], total_downtime |-> 0, merged |-> <<>>,
     incident_count |-> 0, avg_incident_resolution |-> average(0, 0),
     component_stats |-> <<>>]

Acc ==
    [intervals |-> intervals, incident_total |-> incident_total,
     incident_count |-> incident_count, component_intervals |-> component_intervals]

\* the descriptions of the feeds drawn
OneMinute == <<Label, "1", "minute">>
TwoMinutes == <<Label, " ", "2", "minute">>
DayAndTwoMinutes == <<Label, "2", "4", "hour", "2", "minute">>
ZeroHours == <<Label, "0", "hour">>
NoLabel == <<"x">>

DayStart == Now - MinutesPerDay

Record(p, d, t, c) == [pub_date |-> p, description |-> d, type |-> t, components |-> c]

Items ==
    {Record(p, d, m[1], m[2]) :
        p \in {DayStart - 1, DayStart, Now - 2, Now - 1, Now},
        d \in {OneMinute, TwoMinutes},
        m \in {<<"incident", <<"api">>>>, <<"maintenance", <<"api", "web">>>>}}
    \cup {Record(Now - 2, OneMinute, "", <<>>),
          Record(DayStart - 1, DayAndTwoMinutes, "incident", <<"web">>),
          Record(Now + 1, OneMinute, "incident", <<"web", "web">>),
          Record(DayStart, ZeroHours, "incident", <<"api">>),
          Record(Now - 1, NoLabel, "incident", <<"api">>)}

UptimeInit ==
    /\ days = 0
    /\ now = 0
    /\ window_start = 0
    /\ feed = <<>>
    /\ intervals = <<>>
    /\ incident_total = 0
    /\ incident_count = 0
    /\ component_intervals = <<>>
    /\ result = NoResult
    /\ pc = "start"

UptimeIdle ==
    /\ days = 0
    /\ now = 0
    /\ window_start = 0
    /\ feed = <<>>
    /\ intervals = <<>>
    /\ incident_total = 0
    /\ incident_count = 0
    /\ component_intervals = <<>>
    /\ result = NoResult
    /\ pc = "idle"

\* lines 129-137: the call; now is read once, the feed is fetched and the
\* accumulators are created
Start ==
    /\ pc = "start"
    /\ \E d \in (-1)..MaxDays :
        /\ days' = d
        /\ now' = Now
        /\ window_start' = Now - d * MinutesPerDay
    /\ feed' = <<>>
    /\ intervals' = <<>>
    /\ incident_total' = 0
    /\ incident_count' = 0
    /\ component_intervals' = <<>>
    /\ pc' = "loop"
    /\ UNCHANGED <<result, parse_vars, merge_vars>>

\* lines 139-167: iter_items yields the next record and the body of the loop
\* runs on it
ProcessItem ==
    /\ pc = "loop"
    /\ Len(feed) < MaxItems
    /\ \E item \in Items :
        /\ feed' = Append(feed, item)
        /\ LET acc == loop_body(Acc, item, window_start, now)
           IN  /\ intervals' = acc.intervals
               /\ incident_total' = acc.incident_total
               /\ incident_count' = acc.incident_count
               /\ component_intervals' = acc.component_intervals
    /\ UNCHANGED <<days, now, window_start, result, pc, parse_vars, merge_vars>>

\* lines 169-212: iter_items is exhausted
Aggregate ==
    /\ pc = "loop"
    /\ result' = aggregate(Acc, window_start, now)
    /\ pc' = "done"
    /\ UNCHANGED <<days, now, window_start, feed, intervals, incident_total,
                   incident_count, component_intervals, parse_vars, merge_vars>>

(***************************************************************************)
(* Specifications                                                          *)
(***************************************************************************)
Init == ParseIdle /\ MergeIdle /\ UptimeInit
Next == Start \/ ProcessItem \/ Aggregate
Spec == Init /\ [][Next]_vars

InitParse == ParseInit /\ MergeIdle /\ UptimeIdle
NextParse == ParseCall
SpecParse == InitParse /\ [][NextParse]_vars

InitMerge == ParseIdle /\ MergeInit /\ UptimeIdle
NextMerge == MergeCall
SpecMerge == InitMerge /\ [][NextMerge]_vars

(***************************************************************************)
(* Definitions the properties are stated with                              *)
(***************************************************************************)
Range(s) == {s[i] : i \in DOMAIN s}

\* every reordering of the sequence s
Reorderings(s) ==
    {[i \in 1..Len(s) |-> s[f[i]]] : f \in Permutations(1..Len(s))}

RECURSIVE SumOver(_, _)
SumOver(S, f) ==
    IF S = {} THEN 0
    ELSE LET x == CHOOSE y \in S : TRUE
         IN  f[x] + SumOver(S \ {x}, f)

\* the description carries no duration: no label with text behind it, or
\* neither a positive number of hours nor a positive number of minutes
NoDurationFound(d) ==
    \/ d = <<>>
    \/ label_search(d, 1) = 0
    \/ /\ unit_search(dur_text(d), "hour", 1) = 0
       /\ unit_search(dur_text(d), "minute", 1) = 0

RawStart(item) == item.pub_date
RawEnd(item) == item.pub_date + parse_duration(item.description).minutes

\* the records of f with a parsed duration
Timed(f) == {i \in 1..Len(f) : ~parse_duration(f[i].description).isNone}

\* the intervals [start, start + duration) of the records of f, in order
RECURSIVE raw_intervals(_)
raw_intervals(f) ==
    IF f = <<>> THEN <<>>
    ELSE Append(raw_intervals(SubSeq(f, 1, Len(f) - 1)),
                <<RawStart(f[Len(f)]), RawEnd(f[Len(f)])>>)

\* the length of the union of the sets [start, end) /\ [ws, nw) over the
\* intervals raw[i], i \in I: the line from ws to nw is cut at every start
\* and end, and a piece counts when some interval covers it
UnionLength(raw, I, ws, nw) ==
    LET cuts == {ws, nw} \cup {t \in {raw[i][1] : i \in I} \cup {raw[i][2] : i \in I} :
                                  ws < t /\ t < nw}
        next(t) == CHOOSE u \in cuts : u > t /\ \A v \in cuts : v > t => u <= v
        covered(t) == \E i \in I : raw[i][1] <= t /\ t < raw[i][2]
        piece == [t \in cuts \ {nw} |-> IF covered(t) THEN next(t) - t ELSE 0]
    IN  IF ws >= nw THEN 0 ELSE SumOver(cuts \ {nw}, piece)

Feeding(f, comp) == {i \in Timed(f) : comp \in Range(f[i].components)}

Components(f) == UNION {Range(f[i].components) : i \in 1..Len(f)}

\* the whole pass over the records f, as one value
RECURSIVE fold_loop(_, _, _, _, _)
fold_loop(acc, f, k, ws, nw) ==
    IF k > Len(f) THEN acc ELSE fold_loop(loop_body(acc, f[k], ws, nw), f, k + 1, ws, nw)

compute_on(f, ws, nw) == aggregate(fold_loop(EmptyAcc, f, 1, ws, nw), ws, nw)

\* the percentage p is the number v
PctIs(p, v) == p.den > 0 /\ p.num = v * p.den
PctInRange(p) == p.den > 0 /\ 0 <= p.num /\ p.num <= 100 * p.den
PctGeq(p, q) == p.num * q.den >= q.num * p.den

Started == pc \in {"loop", "done"}
Done == pc = "done"

(***************************************************************************)
(* Properties                                                              *)
(***************************************************************************)
\* C1: with window_start < now, the downtime reported for the overall bucket
\* and for every component is the length of the union of the records'
\* intervals [start, start + duration) cut to [window_start, now), over the
\* records with a parsed duration that feed the bucket; a component that is
\* not reported has a union of length zero.
C1_DowntimeIsUnionLength ==
    (Done /\ window_start < now) =>
        LET raw == raw_intervals(feed)
        IN  /\ result.total_downtime = UnionLength(raw, Timed(feed), window_start, now)
            /\ \A c \in Components(feed) :
                LET u == UnionLength(raw, Feeding(feed, c), window_start, now)
                IN  IF c \in DOMAIN result.component_stats
                    THEN result.component_stats[c].downtime = u
                    ELSE u = 0

\* two records of one component overlap inside the window, one of them
\* starting before the window
C1_Witness ==
    /\ Done /\ window_start < now
    /\ \E c \in DOMAIN result.component_stats :
        /\ Len(component_intervals[c]) = 2
        /\ component_intervals[c][1] # component_intervals[c][2]
        /\ result.component_stats[c].downtime < sum_lengths(component_intervals[c])
        /\ \E i \in Feeding(feed, c) :
              RawStart(feed[i]) < window_start /\ RawEnd(feed[i]) > window_start

\* C2: merge_intervals returns intervals sorted by start in which each
\* interval starts strictly after the one before it ends, and returns the
\* empty list for the empty list.
C2_MergedDisjointSorted ==
    pc_merge = "done" =>
        /\ \A k \in 1..(Len(mi_merged) - 1) :
              /\ mi_merged[k][1] <= mi_merged[k + 1][1]
              /\ mi_merged[k + 1][1] > mi_merged[k][2]
        /\ (mi_intervals = <<>> => mi_merged = <<>>)

\* two intervals that touch were merged and a third one stays apart
C2_Witness ==
    /\ pc_merge = "done"
    /\ Len(mi_intervals) = 3
    /\ Len(mi_merged) = 2
    /\ \E i, j \in 1..3 : i # j /\ mi_intervals[i][1] < mi_intervals[i][2]
                          /\ mi_intervals[i][2] = mi_intervals[j][1]
                          /\ mi_intervals[j][1] < mi_intervals[j][2]

\* C3: merge_intervals returns the same list for every reordering of its
\* argument.
C3_MergeOrderIndependent ==
    pc_merge = "done" =>
        \A p \in Reorderings(mi_intervals) : merge_intervals(p) = mi_merged

\* intervals that share a start and differ in their end, longest last
C3_Witness ==
    /\ pc_merge = "done"
    /\ Len(mi_intervals) = 3
    /\ mi_intervals[1][1] > mi_intervals[2][1]
    /\ mi_intervals[2][1] = mi_intervals[3][1]
    /\ mi_intervals[2][2] < mi_intervals[3][2]

\* C4: after any number of records, incident_count is the number of consumed
\* records of type "incident" with a parsed duration and window_start <=
\* start <= now, incident_total is the sum of their full durations, and the
\* result carries that count and the average of that total.
C4_IncidentTally ==
    Started =>
        LET counted == {i \in 1..Len(feed) :
                          /\ feed[i].type = "incident"
                          /\ ~NoDurationFound(feed[i].description)
                          /\ window_start <= feed[i].pub_date
                          /\ feed[i].pub_date <= now}
            full == [i \in counted |-> RawEnd(feed[i]) - RawStart(feed[i])]
        IN  /\ incident_count = Cardinality(counted)
            /\ incident_total = SumOver(counted, full)
            /\ Done => /\ result.incident_count = Cardinality(counted)
                       /\ result.avg_incident_resolution =
                             average(SumOver(counted, full), Cardinality(counted))

\* one incident runs past now and counts in full; another starts before the
\* window, lies partly inside it and is not counted
C4_Witness ==
    /\ Done /\ window_start < now
    /\ incident_count = 1
    /\ \E i, j \in 1..Len(feed) :
        /\ feed[i].type = "incident" /\ feed[i].pub_date <= now
        /\ i \in Timed(feed) /\ RawEnd(feed[i]) > now
        /\ incident_total = RawEnd(feed[i]) - RawStart(feed[i])
        /\ feed[j].type = "incident" /\ feed[j].pub_date < window_start
        /\ j \in Timed(feed) /\ RawEnd(feed[j]) > window_start
        /\ result.total_downtime < incident_total + (RawEnd(feed[j]) - RawStart(feed[j]))

\* C5: with window_start >= now the uptime reported for the overall bucket
\* and for every component returned is 100%.
C5_DegenerateWindow ==
    (Done /\ window_start >= now) =>
        /\ PctIs(result.uptime_pct, 100)
        /\ \A c \in DOMAIN result.component_stats :
              PctIs(result.component_stats[c].uptime_pct, 100)

\* an empty window and a record with a duration that ends after now
C5_Witness ==
    /\ Done /\ window_start >= now
    /\ \E i \in Timed(feed) : RawStart(feed[i]) < now /\ RawEnd(feed[i]) > now

\* the text behind the first label, up to the end of its line
first_label_line(d) ==
    LET labels == {i \in 1..Len(d) : d[i] = Label}
        i == CHOOSE a \in labels : \A b \in labels : a <= b
        ends == {e \in i..Len(d) : \A j \in (i + 1)..e : ~IsEol(d[j])}
        e == CHOOSE a \in ends : \A b \in ends : a >= b
    IN  SubSeq(d, i + 1, e)

\* C6: parse_duration takes the hours and the minutes only from the text
\* between the first "Duration:" label and the end of that line; without a
\* label it returns the sentinel.
C6_SameLineOnly ==
    pc_parse = "done" =>
        dur_result = IF \E i \in 1..Len(description) : description[i] = Label
                     THEN duration_of(first_label_line(description))
                     ELSE None

\* C7: compute_uptime returns the same result for every reordering of the
\* feed.
C7_FeedOrderIndependent ==
    Done => \A p \in Reorderings(feed) : compute_on(p, window_start, now) = result

\* two records that both add downtime, the later one first, with components
C7_Witness ==
    /\ Done
    /\ Len(feed) = 2
    /\ Len(intervals) = 2
    /\ intervals[1][1] > intervals[2][1]
    /\ DOMAIN result.component_stats # {}
    /\ feed[1].type # feed[2].type

\* the records of f that carry a duration, in their order
RECURSIVE with_duration(_)
with_duration(f) ==
    IF f = <<>> THEN <<>>
    ELSE LET rest == with_duration(SubSeq(f, 1, Len(f) - 1))
         IN  IF NoDurationFound(f[Len(f)].description) THEN rest
             ELSE Append(rest, f[Len(f)])

\* C8: a record without a duration changes nothing: the accumulators after
\* any number of records, and the result, are those of the same pass over
\* the records yielded so far with these records removed.
C8_SentinelSkipped ==
    /\ pc = "loop" =>
          Acc = fold_loop(EmptyAcc, with_duration(feed), 1, window_start, now)
    /\ Done => result = compute_on(with_duration(feed), window_start, now)

\* an incident inside the window without a duration, after a record with one
C8_Witness ==
    /\ Done /\ window_start < now
    /\ Len(feed) = 2
    /\ ~NoDurationFound(feed[1].description)
    /\ feed[2].description = ZeroHours
    /\ feed[2].type = "incident"
    /\ window_start <= feed[2].pub_date /\ feed[2].pub_date <= now
    /\ Len(intervals) = 1

\* C9: every reported downtime d has 0 <= d <= max(0, now - window_start)
\* and every reported percentage lies in [0, 100].
C9_DowntimeWithinWindow ==
    Done =>
        LET w == Max(0, now - window_start)
        IN  /\ 0 <= result.total_downtime /\ result.total_downtime <= w
            /\ PctInRange(result.uptime_pct)
            /\ \A c \in DOMAIN result.component_stats :
                  /\ 0 <= result.component_stats[c].downtime
                  /\ result.component_stats[c].downtime <= w
                  /\ PctInRange(result.component_stats[c].uptime_pct)

\* a record that starts before the window and ends after now: the downtime
\* is the whole window
C9_Witness ==
    /\ Done /\ window_start < now
    /\ result.total_downtime = now - window_start
    /\ PctIs(result.uptime_pct, 0)
    /\ \E i \in Timed(feed) : RawStart(feed[i]) < window_start /\ RawEnd(feed[i]) > now

Covers(outer, iv) == \E o \in Range(outer) : o[1] <= iv[1] /\ iv[2] <= o[2]

\* C10: after each record every interval of a component bucket is in the
\* overall bucket, is not empty and lies in [window_start, now]; in the
\* result every component's merged intervals are covered by the overall
\* ones, its downtime is positive and at most the overall downtime, and its
\* uptime is at least the overall uptime.
C10_ComponentsWithinOverall ==
    Started =>
        /\ \A c \in DOMAIN component_intervals :
            \A iv \in Range(component_intervals[c]) :
                /\ iv \in Range(intervals)
                /\ iv[1] < iv[2]
                /\ window_start <= iv[1] /\ iv[2] <= now
        /\ Done =>
            \A c \in DOMAIN result.component_stats :
                LET st == result.component_stats[c]
                IN  /\ \A iv \in Range(st.intervals) : Covers(result.merged, iv)
                    /\ st.downtime > 0
                    /\ st.downtime <= result.total_downtime
                    /\ PctGeq(st.uptime_pct, result.uptime_pct)

\* two components, one of them down for less than the whole
C10_Witness ==
    /\ Done
    /\ \E c, e \in DOMAIN result.component_stats :
        /\ c # e
        /\ result.component_stats[c].downtime < result.total_downtime
        /\ result.component_stats[e].downtime = result.total_downtime
        /\ ~PctGeq(result.uptime_pct, result.component_stats[c].uptime_pct)

====
